---- MODULE Spec2Model ----
(***************************************************************************)
(* Model of the TESSERACT wallet aggregator (solana_integration.py) and of *)
(* the formula library and profit engine (magick_engine.py).               *)
(*                                                                         *)
(* The wallet aggregator runs as asyncio coroutines: a call runs without   *)
(* interruption up to its next HTTP request, and resumes when the provider *)
(* answers.  One step of the model is therefore either the start of an     *)
(* operation up to its first request, or the arrival of a provider         *)
(* response together with everything the coroutines do until the next      *)
(* request is sent or the operation ends.  Leaving an async with block     *)
(* awaits too (__aexit__).  get_transaction_history writes the retained    *)
(* transactions inside its blocks (line 133), so leaving them is a step of *)
(* its own; the other fetches write nothing the aggregator retains, and    *)
(* leaving their blocks is part of the step of the response.  In Spec the  *)
(* operations are called one after the other; SpecConcurrent interleaves   *)
(* monitor_wallet invocations at their awaits.                             *)
(*                                                                         *)
(* Numbers: Python floats are modelled by exact integers and rationals;    *)
(* timestamps and log lines are left out.                                  *)
(***************************************************************************)
EXTENDS Integers, Sequences, FiniteSets, TLC

VARIABLES
    profit_tracking,   \* self.profit_tracking: total_profit, sessions, last_profit
    transactions,      \* self.transactions: the retained transaction list
    op,                \* the aggregator operation in progress, "none" when idle
    pending,           \* the provider request awaiting its response, "none" if none
    locals,            \* local variables of the operation in progress (or last finished)
    result,            \* how the last finished operation ended: returned value or exception
    requests,          \* provider requests issued by the current (or last) operation, in order
    responses,         \* history: how each of these requests ended, in order
    ncalls,            \* number of aggregator operations started
    monitor_log,       \* history: per monitor_wallet call, the transaction provider's response
    formula,           \* the formula-library call at hand: its name and arguments
    out,               \* what that call produced: a result or an exception
    profits,           \* MagickProfitEngine.profits
    trades,            \* MagickProfitEngine.trades
    engine_log,        \* history: the engine calls made, and the engine before the last of them
    analysed,          \* history: the segments the last flower_of_life_pattern call went through
    earlier,           \* history: an earlier formula-library call, with what it produced
    nformula,          \* number of formula-library calls made
    open_sessions,     \* the aiohttp client sessions that are open
    before,            \* history: the retained state when the current (or last) operation began
    tasks              \* concurrent monitor_wallet invocations on the shared aggregator

wallet_vars == <<profit_tracking, transactions, op, pending, locals, result,
                 requests, responses, ncalls, monitor_log, open_sessions, before>>
formula_vars == <<formula, out, profits, trades, engine_log, analysed, earlier, nformula>>
vars == <<profit_tracking, transactions, op, pending, locals, result,
          requests, responses, ncalls, monitor_log, open_sessions, before,
          formula, out, profits, trades, engine_log, analysed, earlier, nformula, tasks>>

(***************************************************************************)
(* Bounds of the model.                                                    *)
(***************************************************************************)
MaxCalls == 3
MaxItems == 2
MaxNum == 2
MaxTxLen == 6
MaxData == 39
MaxPrices == 3
MaxChain == 3
NumTasks == 2

(***************************************************************************)
(* Exact rational arithmetic: a rational is <<n, d>> with d > 0, reduced.  *)
(***************************************************************************)
Abs(n) == IF n < 0 THEN -n ELSE n

RECURSIVE Gcd(_, _)
Gcd(a, b) == IF b = 0 THEN a ELSE Gcd(b, a % b)

Norm(n, d) ==
    LET s == IF d < 0 THEN -1 ELSE 1
        g == Gcd(Abs(n), Abs(d))
    IN  <<(s * n) \div g, (s * d) \div g>>

R(n) == <<n, 1>>
RAdd(p, q) == Norm(p[1] * q[2] + q[1] * p[2], p[2] * q[2])
RSub(p, q) == Norm(p[1] * q[2] - q[1] * p[2], p[2] * q[2])
RMul(p, q) == Norm(p[1] * q[1], p[2] * q[2])
RDiv(p, q) == Norm(p[1] * q[2], p[2] * q[1])
RLess(p, q) == p[1] * q[2] < q[1] * p[2]
RAbs(p) == <<Abs(p[1]), p[2]>>
RMax(p, q) == IF RLess(p, q) THEN q ELSE p

RECURSIVE RSum(_)
RSum(s) == IF s = <<>> THEN R(0) ELSE RAdd(s[1], RSum(Tail(s)))

(***************************************************************************)
(* Python values.  Every value carries its type, so that a missing value   *)
(* (None) and an unassigned local can be told from a dict.                 *)
(***************************************************************************)
WALLET_ADDRESS == "57pNZ8Kybv22PJ8z5AK7ojB8G7Rx2XQLsfNQV8a65rmm"

None == [type |-> "NoneType"]
Unassigned == [type |-> "unassigned"]

\* How a coroutine ends.
Return(v) == [kind |-> "return", value |-> v, exc |-> "none"]
Raise(x) == [kind |-> "raise", value |-> None, exc |-> x]

(***************************************************************************)
(* Provider responses.  A request ends with an HTTP status and a JSON body *)
(* (200), with another status (429 rate limit, 500 for any other status),  *)
(* or with an exception (timeout, connection error, undecodable body).     *)
(***************************************************************************)
Http(s, b) == [kind |-> "http", status |-> s, body |-> b]
Failed(b) == [kind |-> "exception", status |-> 0, body |-> b]

\* Transaction entries of a JSON transaction list.
Tx(a) == [isdict |-> TRUE, has_amount |-> TRUE, coercible |-> TRUE, amount |-> a]
TxBad == [isdict |-> TRUE, has_amount |-> TRUE, coercible |-> FALSE, amount |-> 0]
TxNoAmount == [isdict |-> TRUE, has_amount |-> FALSE, coercible |-> FALSE, amount |-> 0]
TxNotRecord == [isdict |-> FALSE, has_amount |-> FALSE, coercible |-> FALSE, amount |-> 0]

ExampleTxs == <<Tx(3), TxBad, Tx(-1), TxNoAmount, Tx(2)>>
SixTxs == <<Tx(3), Tx(3), Tx(3), Tx(3), Tx(3), Tx(3)>>

\* response.json() gives whatever JSON the provider sent.  A list is the
\* sequence of its entries.  A value that is not a list is written as a
\* one-entry sequence holding a tag, which no list holds: JsonNull stands for
\* null, a number and a boolean (len() raises TypeError on them); JsonObject
\* for an object such as {'success': True, 'data': [...]} (len() counts its
\* keys, a slice of it raises TypeError).  A JSON string behaves as a list of
\* entries that are not records.
JsonNull == <<[json |-> "null", keys |-> 0]>>
JsonObject == <<[json |-> "object", keys |-> 2]>>

IsList(b) == b = <<>> \/ "json" \notin DOMAIN b[1]
HasLen(b) == IsList(b) \/ b[1].json = "object"
\* len(b), for a value that has one
PyLen(b) == IF IsList(b) THEN Len(b) ELSE b[1].keys

\* An entry of a token or NFT list.
Item(name) == [item |-> name]

TxBodies ==
    {<<>>, ExampleTxs, SixTxs, <<Tx(-1)>>, <<TxNotRecord, Tx(2)>>, JsonNull, JsonObject}
BalanceBodies == {"lamports"}
ItemBodies(item) ==
    {[i \in 1..n |-> Item(item)] : n \in 0..MaxItems} \cup {JsonNull, JsonObject}

Responses(bodies, empty) ==
    {Http(200, b) : b \in bodies} \cup {Http(429, empty), Http(500, empty), Failed(empty)}

NoResponse == [kind |-> "none", status |-> 0, body |-> <<>>]

(***************************************************************************)
(* The fetch operations, as functions of the provider's response.          *)
(***************************************************************************)
Ok(r) == r.kind = "http" /\ r.status = 200

\* _get_balance_fallback: Solscan; anything but a 200 gives the pending placeholder.
get_balance_fallback(f) ==
    IF Ok(f)
    THEN Return([type |-> "dict", status |-> "success", wallet |-> WALLET_ADDRESS,
                 data |-> f.body])
    ELSE Return([type |-> "dict", status |-> "pending", wallet |-> WALLET_ADDRESS,
                 message |-> "Wallet monitoring active"])

\* The call of _get_balance_fallback made by get_wallet_balance.
CallFallback == [kind |-> "call", value |-> None, exc |-> "none"]

\* get_wallet_balance, asking the fallback after a 200 of the primary too.
get_wallet_balance_always_fallback(r) ==
    IF r.kind = "exception" \/ r.status = 429 \/ r.status = 200
    THEN CallFallback
    ELSE Return(None)

\* get_wallet_balance up to the end of its primary request: a 200 returns the
\* success envelope; a 429 (line 58) and an exception (line 61) go on to the
\* fallback; any other status leaves both branches of the if, and the
\* function ends without a return statement, which returns None.
get_wallet_balance(r) ==
    IF Ok(r)
    THEN Return([type |-> "dict", status |-> "success", wallet |-> WALLET_ADDRESS,
                 balance |-> r.body])
    ELSE IF r.kind = "exception" \/ r.status = 429
    THEN CallFallback
    ELSE Return(None)

\* The error envelope of lines 113-117, 144-148 and 230-234 reads the name e
\* of the except clause.  Python unbinds e when the except block ends, and
\* never binds it when no exception occurred, so building the envelope
\* raises UnboundLocalError on every path that reaches it.
ErrorEnvelope == Raise("UnboundLocalError")

\* Lines 101-109: on a 200 whose body has no len(), line 103 raises inside
\* the try, and the function goes on to the error envelope.
get_token_balances(r) ==
    IF Ok(r) /\ HasLen(r.body)
    THEN Return([type |-> "dict", status |-> "success", tokens |-> r.body,
                 count |-> PyLen(r.body)])
    ELSE ErrorEnvelope

\* Lines 131-140, what is returned; line 134 raises as line 103 does.
get_transaction_history(r) ==
    IF Ok(r) /\ HasLen(r.body)
    THEN Return([type |-> "dict", status |-> "success", transactions |-> r.body,
                 count |-> PyLen(r.body)])
    ELSE ErrorEnvelope

\* Lines 218-226; line 220 raises as line 103 does.
get_wallet_nfts(r) ==
    IF Ok(r) /\ HasLen(r.body)
    THEN Return([type |-> "dict", status |-> "success", nfts |-> r.body,
                 count |-> PyLen(r.body)])
    ELSE ErrorEnvelope

\* get_transaction_history, adding the fetched list to the retained one.
RetainTransactions_Append(retained, r) == IF Ok(r) THEN retained \o r.body ELSE retained

\* Line 133: self.transactions = transactions, reached on a 200 only and
\* before len() is taken, so whatever JSON value came is retained; on every
\* other path the retained list stays as it was.
RetainTransactions(retained, r) == IF Ok(r) THEN r.body ELSE retained

\* track_profit, dividing by sessions itself.
track_profit_unguarded(pt) ==
    IF pt.sessions = 0
    THEN Raise("ZeroDivisionError")
    ELSE Return([type |-> "dict", status |-> "success", profit_tracking |-> pt,
                 total_profit |-> pt.total_profit,
                 average_profit_per_session |-> Norm(pt.total_profit, pt.sessions),
                 sessions |-> pt.sessions])

\* track_profit (lines 197-208): the average divides by max(1, sessions).
track_profit(pt) ==
    Return([type |-> "dict", status |-> "success", profit_tracking |-> pt,
            total_profit |-> pt.total_profit,
            average_profit_per_session |->
                Norm(pt.total_profit, IF pt.sessions > 1 THEN pt.sessions ELSE 1),
            sessions |-> pt.sessions])

\* get_wallet_status (lines 277-286); self.balance_history is never written.
\* len(self.transactions) raises TypeError when line 133 retained a value
\* without len().
get_wallet_status(pt, retained) ==
    IF HasLen(retained)
    THEN Return([type |-> "dict", wallet_address |-> WALLET_ADDRESS,
                 profit_tracking |-> pt, transaction_count |-> PyLen(retained),
                 balance_history_size |-> 0, status |-> "active"])
    ELSE Raise("TypeError")

(***************************************************************************)
(* monitor_wallet after its three fetches (lines 163-195).                 *)
(***************************************************************************)
\* The slice forgotten: every transaction returned is counted.
First5_NoSlice(s) == s

\* data[:5]
First5(s) == SubSeq(s, 1, IF Len(s) < 5 THEN Len(s) ELSE 5)

\* One pass of the loop body: isinstance(tx, dict), 'amount' in tx, float(...)
\* guarded by a bare except.
Contribution(tx) ==
    IF tx.isdict /\ tx.has_amount /\ tx.coercible THEN tx.amount ELSE 0

RECURSIVE SumContributions(_)
SumContributions(s) ==
    IF s = <<>> THEN 0 ELSE Contribution(s[1]) + SumContributions(Tail(s))

\* Lines 164-173: the profit delta of a transaction envelope.
ProfitDelta(txs) ==
    IF txs.status = "success" THEN SumContributions(First5(txs.transactions)) ELSE 0

\* Lines 176-178.
UpdateProfitTracking(pt, profit) ==
    [total_profit |-> pt.total_profit + profit,
     sessions |-> pt.sessions + 1,
     last_profit |-> profit]

\* Line 167: the slice [:5] of a success envelope's transactions, which
\* raises TypeError when they are a JSON object.
Sliceable(txs) == txs.status = "success" => IsList(txs.transactions)

\* Lines 163-195: the delta, the update, the log lines (balance.get fails on
\* None) and the composite result.  When the slice of line 167 raises, the
\* delta is the 0.0 of line 164 and the update is not reached.
monitor_wallet(balance, tokens, txs, pt) ==
    IF ~Sliceable(txs)
    THEN [profit |-> 0, pt |-> pt, end |-> Raise("TypeError")]
    ELSE LET profit == ProfitDelta(txs)
             pt2 == UpdateProfitTracking(pt, profit)
         IN  [profit |-> profit,
              pt |-> pt2,
              end |-> IF balance.type # "dict"
                      THEN Raise("AttributeError")
                      ELSE Return([type |-> "dict", status |-> "success",
                                   wallet |-> WALLET_ADDRESS, balance |-> balance,
                                   tokens |-> tokens, transactions |-> txs,
                                   profit_tracking |-> pt2])]

(***************************************************************************)
(* get_wallet_value (lines 236-275).                                       *)
(***************************************************************************)
\* nfts.get('count', 0)
GetCount(env) == IF "count" \in DOMAIN env THEN env.count ELSE 0

\* Lines 250-267: the value summary once the three fetches returned.
get_wallet_value(tokens, nfts, balance) ==
    Return([type |-> "dict", status |-> "success", wallet |-> WALLET_ADDRESS,
            value |-> [sol_balance |-> 0, token_value |-> 0,
                       nft_count |-> GetCount(nfts), total_usd_value |-> 0]])

\* Lines 269-275: an exception of a fetch is caught and reported.
ValueError(x) == Return([type |-> "dict", status |-> "error", error |-> x])

(***************************************************************************)
(* The state machine of the wallet aggregator.                             *)
(***************************************************************************)
NoLocals ==
    [balance |-> Unassigned, tokens |-> Unassigned, transactions |-> Unassigned,
     nfts |-> Unassigned, profit |-> Unassigned]

NoResult == [op |-> "none", kind |-> "none", value |-> None, exc |-> "none"]

NoFormula == [fn |-> "none", args |-> <<>>]
NotCalled == [kind |-> "none", value |-> None, exc |-> "none"]
NoEarlier == [formula |-> NoFormula, out |-> NotCalled]
NoEngineCalls == [executes |-> 0, magick_profits |-> <<>>, trades |-> <<>>, profits |-> <<>>]
NoTasks == <<>>

\* The state the aggregator retains between operations.
Retained == [profit_tracking |-> profit_tracking, transactions |-> transactions]

\* async with aiohttp.ClientSession() as session: the session is open inside
\* the block and closed when the block is left, however it is left.
OpenSession(open, s) == open \cup {s}
CloseSession_Leak(open, s) == open
CloseSession(open, s) == open \ {s}

\* The sessions open once the operation waits again or has ended: those left
\* open, and the session of the request now pending.
Sessions(left) ==
    open_sessions' = IF pending' = "none" THEN left ELSE OpenSession(left, pending')

Init ==
    /\ profit_tracking = [total_profit |-> 0, sessions |-> 0, last_profit |-> 0]
    /\ transactions = <<>>
    /\ op = "none"
    /\ pending = "none"
    /\ locals = NoLocals
    /\ result = NoResult
    /\ requests = <<>>
    /\ responses = <<>>
    /\ ncalls = 0
    /\ monitor_log = <<>>
    /\ formula = NoFormula
    /\ out = NotCalled
    /\ profits = <<>>
    /\ trades = <<>>
    /\ engine_log = NoEngineCalls
    /\ analysed = <<>>
    /\ earlier = NoEarlier
    /\ nformula = 0
    /\ open_sessions = {}
    /\ before = Retained
    /\ tasks = NoTasks

\* An operation is called and runs up to its first provider request.
Call(o, req) ==
    /\ op = "none"
    /\ ncalls < MaxCalls
    /\ op' = o
    /\ pending' = req
    /\ requests' = <<req>>
    /\ responses' = <<>>
    /\ locals' = NoLocals
    /\ result' = NoResult
    /\ ncalls' = ncalls + 1
    /\ open_sessions' = OpenSession(open_sessions, req)
    /\ before' = Retained
    /\ UNCHANGED <<profit_tracking, transactions, formula_vars, tasks>>

\* The pending request ends with response r.
Received(r) == responses' = Append(responses, r)

\* The operation in progress sends its next request and waits.
Await(req, l) ==
    /\ pending' = req
    /\ requests' = Append(requests, req)
    /\ locals' = l
    /\ UNCHANGED <<op, result>>

\* The operation in progress ends.
Finish(end, l) ==
    /\ op' = "none"
    /\ pending' = "none"
    /\ locals' = l
    /\ result' = [op |-> op, kind |-> end.kind, value |-> end.value, exc |-> end.exc]
    /\ UNCHANGED requests

Call_monitor_wallet ==
    /\ Call("monitor_wallet", "helius_balances")
    /\ monitor_log' = Append(monitor_log, NoResponse)

Call_get_wallet_value ==
    /\ Call("get_wallet_value", "magiceden_tokens")
    /\ UNCHANGED monitor_log

Call_get_wallet_balance ==
    /\ Call("get_wallet_balance", "helius_balances")
    /\ UNCHANGED monitor_log

Call_get_token_balances ==
    /\ Call("get_token_balances", "magiceden_tokens")
    /\ UNCHANGED monitor_log

Call_get_transaction_history ==
    /\ Call("get_transaction_history", "solscan_transactions")
    /\ UNCHANGED monitor_log

Call_get_wallet_nfts ==
    /\ Call("get_wallet_nfts", "magiceden_nfts")
    /\ UNCHANGED monitor_log

\* An operation without a provider request is called and runs to its end.
Run(o, end) ==
    /\ op = "none"
    /\ ncalls < MaxCalls
    /\ ncalls' = ncalls + 1
    /\ requests' = <<>>
    /\ responses' = <<>>
    /\ locals' = NoLocals
    /\ result' = [op |-> o, kind |-> end.kind, value |-> end.value, exc |-> end.exc]
    /\ before' = Retained
    /\ UNCHANGED <<profit_tracking, transactions, op, pending, open_sessions,
                   formula_vars, tasks>>

Call_track_profit ==
    /\ Run("track_profit", track_profit(profit_tracking))
    /\ UNCHANGED monitor_log

Call_get_wallet_status ==
    /\ Run("get_wallet_status", get_wallet_status(profit_tracking, transactions))
    /\ UNCHANGED monitor_log

\* get_wallet_balance has returned e to its caller.
AfterBalance(e) ==
    CASE op = "get_wallet_balance" -> Finish(e, locals)
      [] op = "monitor_wallet" ->
            Await("magiceden_tokens", [locals EXCEPT !.balance = e.value])
      [] op = "get_wallet_value" ->
            Finish(get_wallet_value(locals.tokens, locals.nfts, e.value),
                   [locals EXCEPT !.balance = e.value])

\* The primary balance provider answers.
Resume_helius_balances ==
    /\ pending = "helius_balances"
    /\ \E r \in Responses(BalanceBodies, "") :
          LET e == get_wallet_balance(r)
          IN  /\ Received(r)
              /\ IF e.kind = "call"
                 THEN Await("solscan_account", locals)
                 ELSE AfterBalance(e)
              \* Line 60 calls the fallback inside the session block of line
              \* 44; line 63 calls it after the block was left.
              /\ IF e.kind = "call" /\ r.kind = "http"
                 THEN Sessions(open_sessions)
                 ELSE Sessions(CloseSession(open_sessions, "helius_balances"))
    /\ UNCHANGED <<profit_tracking, transactions, ncalls, monitor_log, before,
                   formula_vars, tasks>>

\* The fallback balance provider answers.
Resume_solscan_account ==
    /\ pending = "solscan_account"
    /\ \E f \in Responses(BalanceBodies, "") :
          /\ Received(f)
          /\ AfterBalance(get_balance_fallback(f))
          /\ Sessions(CloseSession(CloseSession(open_sessions, "solscan_account"),
                                   "helius_balances"))
    /\ UNCHANGED <<profit_tracking, transactions, ncalls, monitor_log, before,
                   formula_vars, tasks>>

\* The token provider answers.
Resume_magiceden_tokens ==
    /\ pending = "magiceden_tokens"
    /\ \E r \in Responses(ItemBodies("token"), <<>>) :
          LET e == get_token_balances(r)
          IN  /\ Received(r)
              /\ CASE op = "get_token_balances" -> Finish(e, locals)
                   [] op = "monitor_wallet" ->
                         IF e.kind = "raise"
                         THEN Finish(e, locals)
                         ELSE Await("solscan_transactions",
                                    [locals EXCEPT !.tokens = e.value])
                   [] op = "get_wallet_value" ->
                         IF e.kind = "raise"
                         THEN Finish(ValueError(e.exc), locals)
                         ELSE Await("magiceden_nfts",
                                    [locals EXCEPT !.tokens = e.value])
              /\ Sessions(CloseSession(open_sessions, "magiceden_tokens"))
    /\ UNCHANGED <<profit_tracking, transactions, ncalls, monitor_log, before,
                   formula_vars, tasks>>

\* The transaction provider answers: lines 131-134 run, line 133 retaining
\* the fetched value, and the coroutine goes on to leave the blocks of lines
\* 130 and 122, which awaits; the session is still open.
Resume_solscan_transactions ==
    /\ pending = "solscan_transactions"
    /\ \E r \in Responses(TxBodies, <<>>) :
          /\ Received(r)
          /\ transactions' = RetainTransactions(transactions, r)
          /\ monitor_log' = IF op = "monitor_wallet"
                            THEN [monitor_log EXCEPT ![Len(monitor_log)] = r]
                            ELSE monitor_log
    /\ pending' = "none"
    /\ UNCHANGED <<profit_tracking, op, locals, result, requests, ncalls, open_sessions,
                   before, formula_vars, tasks>>

\* The blocks of lines 122 and 130 are left and the session is closed;
\* get_transaction_history returns or raises (lines 135-148), and
\* monitor_wallet then runs to its end (lines 163-195).
Close_solscan_transactions ==
    /\ op \in {"get_transaction_history", "monitor_wallet"}
    /\ pending = "none"
    /\ LET e == get_transaction_history(responses[Len(responses)])
       IN  CASE op = "get_transaction_history" ->
                  /\ Finish(e, locals)
                  /\ UNCHANGED profit_tracking
             [] op = "monitor_wallet" ->
                  IF e.kind = "raise"
                  THEN /\ Finish(e, locals)
                       /\ UNCHANGED profit_tracking
                  ELSE LET m == monitor_wallet(locals.balance, locals.tokens,
                                               e.value, profit_tracking)
                       IN  /\ Finish(m.end,
                                     [locals EXCEPT
                                        !.transactions = e.value,
                                        !.profit = [type |-> "float", v |-> m.profit]])
                           /\ profit_tracking' = m.pt
    /\ open_sessions' = CloseSession(open_sessions, "solscan_transactions")
    /\ UNCHANGED <<transactions, responses, ncalls, monitor_log, before, formula_vars,
                   tasks>>

\* The NFT provider answers.
Resume_magiceden_nfts ==
    /\ pending = "magiceden_nfts"
    /\ \E r \in Responses(ItemBodies("nft"), <<>>) :
          LET e == get_wallet_nfts(r)
          IN  /\ Received(r)
              /\ CASE op = "get_wallet_nfts" -> Finish(e, locals)
                   [] op = "get_wallet_value" ->
                         IF e.kind = "raise"
                         THEN Finish(ValueError(e.exc), locals)
                         ELSE Await("helius_balances",
                                    [locals EXCEPT !.nfts = e.value])
              /\ Sessions(CloseSession(open_sessions, "magiceden_nfts"))
    /\ UNCHANGED <<profit_tracking, transactions, ncalls, monitor_log, before,
                   formula_vars, tasks>>

Next ==
    \/ Call_monitor_wallet
    \/ Call_get_wallet_value
    \/ Call_get_wallet_balance
    \/ Call_get_token_balances
    \/ Call_get_transaction_history
    \/ Call_get_wallet_nfts
    \/ Call_track_profit
    \/ Call_get_wallet_status
    \/ Resume_helius_balances
    \/ Resume_solscan_account
    \/ Resume_magiceden_tokens
    \/ Resume_solscan_transactions
    \/ Close_solscan_transactions
    \/ Resume_magiceden_nfts

Spec == Init /\ [][Next]_vars

(***************************************************************************)
(* The profit computation of monitor_wallet on its own: lines 163-195      *)
(* applied to the envelopes get_transaction_history returns, for all       *)
(* transaction lists of up to MaxTxLen entries and for a JSON object.  The *)
(* initial states are those of line 163: the fetch has returned, and line  *)
(* 133 has retained what the envelope holds.                               *)
(***************************************************************************)
TxAmounts == {-1, 2, 3}
TxEntries == {Tx(a) : a \in TxAmounts} \cup {TxBad, TxNoAmount, TxNotRecord}
TxLists == UNION {[1..n -> TxEntries] : n \in 0..MaxTxLen}

TxEnvelopes ==
    {get_transaction_history(Http(200, b)).value : b \in TxLists \cup {JsonObject}}

InitDelta ==
    /\ profit_tracking = [total_profit |-> 0, sessions |-> 0, last_profit |-> 0]
    /\ op = "monitor_wallet"
    /\ pending = "none"
    /\ \E e \in TxEnvelopes :
          /\ transactions = e.transactions
          /\ locals = [NoLocals EXCEPT
                         !.balance = get_balance_fallback(Http(500, "")).value,
                         !.tokens = get_token_balances(Http(200, <<>>)).value,
                         !.transactions = e]
    /\ result = NoResult
    /\ requests = <<>>
    /\ responses = <<>>
    /\ ncalls = 1
    /\ monitor_log = <<>>
    /\ formula = NoFormula
    /\ out = NotCalled
    /\ profits = <<>>
    /\ trades = <<>>
    /\ engine_log = NoEngineCalls
    /\ analysed = <<>>
    /\ earlier = NoEarlier
    /\ nformula = 0
    /\ open_sessions = {}
    /\ before = [profit_tracking |-> profit_tracking, transactions |-> <<>>]
    /\ tasks = NoTasks

ComputeDelta ==
    /\ op = "monitor_wallet"
    /\ locals.transactions.type = "dict"
    /\ LET m == monitor_wallet(locals.balance, locals.tokens, locals.transactions,
                               profit_tracking)
       IN  /\ Finish(m.end, [locals EXCEPT !.profit = [type |-> "float", v |-> m.profit]])
           /\ profit_tracking' = m.pt
    /\ UNCHANGED <<transactions, responses, ncalls, monitor_log, open_sessions, before,
                   formula_vars, tasks>>

NextDelta == ComputeDelta

SpecDelta == InitDelta /\ [][NextDelta]_vars

(***************************************************************************)
(* Concurrent monitor_wallet invocations (main.py lines 296-300) on the    *)
(* shared aggregator, under one event loop: an invocation runs alone from  *)
(* one await to the next, and the invocations interleave at these awaits   *)
(* only.  Each invocation has its own local variables; the profit-tracking *)
(* state and the retained transaction list are shared.                     *)
(***************************************************************************)
Invocations == 1..NumTasks

NotStarted ==
    [pc |-> "idle", balance |-> Unassigned, tokens |-> Unassigned,
     response |-> NoResponse, profit |-> Unassigned, end |-> NotCalled]

InitConcurrent ==
    /\ profit_tracking = [total_profit |-> 0, sessions |-> 0, last_profit |-> 0]
    /\ transactions = <<>>
    /\ op = "none"
    /\ pending = "none"
    /\ locals = NoLocals
    /\ result = NoResult
    /\ requests = <<>>
    /\ responses = <<>>
    /\ ncalls = 0
    /\ monitor_log = <<>>
    /\ formula = NoFormula
    /\ out = NotCalled
    /\ profits = <<>>
    /\ trades = <<>>
    /\ engine_log = NoEngineCalls
    /\ analysed = <<>>
    /\ earlier = NoEarlier
    /\ nformula = 0
    /\ open_sessions = {}
    /\ before = Retained
    /\ tasks = [t \in Invocations |-> NotStarted]

\* Invocation t goes on to wait for the request req.
Waits(t, req, balance, tokens) ==
    tasks' = [tasks EXCEPT ![t] = [@ EXCEPT !.pc = req, !.balance = balance,
                                            !.tokens = tokens]]

\* Invocation t ends; its local variables are gone.
Ends(t, end, r, profit) ==
    tasks' = [tasks EXCEPT ![t] = [pc |-> "done", balance |-> Unassigned,
                                   tokens |-> Unassigned, response |-> r,
                                   profit |-> profit, end |-> end]]

\* A request to /wallet/monitor arrives: invocation t runs up to its first await.
Start(t) ==
    /\ tasks[t].pc = "idle"
    /\ Waits(t, "helius_balances", Unassigned, Unassigned)
    /\ UNCHANGED <<wallet_vars, formula_vars>>

Task_helius_balances(t) ==
    /\ tasks[t].pc = "helius_balances"
    /\ \E r \in Responses(BalanceBodies, "") :
          LET e == get_wallet_balance(r)
          IN  IF e.kind = "call"
              THEN Waits(t, "solscan_account", Unassigned, Unassigned)
              ELSE Waits(t, "magiceden_tokens", e.value, Unassigned)
    /\ UNCHANGED <<wallet_vars, formula_vars>>

Task_solscan_account(t) ==
    /\ tasks[t].pc = "solscan_account"
    /\ \E f \in Responses(BalanceBodies, "") :
          Waits(t, "magiceden_tokens", get_balance_fallback(f).value, Unassigned)
    /\ UNCHANGED <<wallet_vars, formula_vars>>

Task_magiceden_tokens(t) ==
    /\ tasks[t].pc = "magiceden_tokens"
    /\ \E r \in Responses(ItemBodies("token"), <<>>) :
          LET e == get_token_balances(r)
          IN  IF e.kind = "raise"
              THEN Ends(t, e, NoResponse, Unassigned)
              ELSE Waits(t, "solscan_transactions", tasks[t].balance, e.value)
    /\ UNCHANGED <<wallet_vars, formula_vars>>

\* The transaction provider answers invocation t: line 133 retains the
\* fetched value, and the invocation goes on to leave the blocks of lines 130
\* and 122, where the other invocations can run.
Task_solscan_transactions(t) ==
    /\ tasks[t].pc = "solscan_transactions"
    /\ \E r \in Responses(TxBodies, <<>>) :
          /\ transactions' = RetainTransactions(transactions, r)
          /\ tasks' = [tasks EXCEPT ![t] = [@ EXCEPT !.pc = "close_solscan_transactions",
                                                     !.response = r]]
    /\ UNCHANGED <<profit_tracking, op, pending, locals, result, requests, responses,
                   ncalls, monitor_log, open_sessions, before, formula_vars>>

\* Invocation t has left the blocks: get_transaction_history returns or
\* raises, and lines 163-195 run without another await.
Task_close_solscan_transactions(t) ==
    /\ tasks[t].pc = "close_solscan_transactions"
    /\ LET r == tasks[t].response
           e == get_transaction_history(r)
       IN  IF e.kind = "raise"
           THEN /\ Ends(t, e, r, Unassigned)
                /\ UNCHANGED profit_tracking
           ELSE LET m == monitor_wallet(tasks[t].balance, tasks[t].tokens,
                                        e.value, profit_tracking)
                IN  /\ Ends(t, m.end, r, [type |-> "float", v |-> m.profit])
                    /\ profit_tracking' = m.pt
    /\ UNCHANGED <<transactions, op, pending, locals, result, requests, responses, ncalls,
                   monitor_log, open_sessions, before, formula_vars>>

NextConcurrent ==
    \E t \in Invocations :
        \/ Start(t)
        \/ Task_helius_balances(t)
        \/ Task_solscan_account(t)
        \/ Task_magiceden_tokens(t)
        \/ Task_solscan_transactions(t)
        \/ Task_close_solscan_transactions(t)

SpecConcurrent == InitConcurrent /\ [][NextConcurrent]_vars

(***************************************************************************)
(* The formula library (magick_engine.py).  Arguments and results are      *)
(* exact rationals.  Python's / raises ZeroDivisionError on a zero         *)
(* divisor, which ends the call.                                           *)
(***************************************************************************)
ZeroDivisionError == Raise("ZeroDivisionError")
IsZero(q) == q[1] = 0

\* HermeticPrinciples.principle_correspondence
principle_correspondence(macro, micro) ==
    Return([principle |-> "correspondence", macro_level |-> macro, micro_level |-> micro,
            correspondence_ratio |-> IF ~IsZero(micro) THEN RDiv(macro, micro) ELSE R(0)])

\* HermeticPrinciples.principle_vibration
principle_vibration(frequency) ==
    Return([principle |-> "vibration", frequency |-> frequency,
            wavelength |-> IF ~IsZero(frequency) THEN RDiv(R(1), frequency) ELSE R(0)])

\* principle_polarity with >= for > in the market state.
principle_polarity_ge(bull, bear) ==
    LET total == RAdd(bull, bear)
        bull_percent == IF IsZero(total) THEN R(50) ELSE RMul(RDiv(bull, total), R(100))
        bear_percent == IF IsZero(total) THEN R(50) ELSE RMul(RDiv(bear, total), R(100))
    IN  Return([principle |-> "polarity", bull_force |-> bull_percent,
                bear_force |-> bear_percent, balance_point |-> R(50),
                market_state |-> IF ~RLess(bull_percent, R(50)) THEN "bullish"
                                 ELSE "bearish"])

\* HermeticPrinciples.principle_polarity
principle_polarity(bull, bear) ==
    LET total == RAdd(bull, bear)
        bull_percent == IF IsZero(total) THEN R(50) ELSE RMul(RDiv(bull, total), R(100))
        bear_percent == IF IsZero(total) THEN R(50) ELSE RMul(RDiv(bear, total), R(100))
    IN  Return([principle |-> "polarity", bull_force |-> bull_percent,
                bear_force |-> bear_percent, balance_point |-> R(50),
                market_state |-> IF RLess(R(50), bull_percent) THEN "bullish"
                                 ELSE "bearish"])

\* HermeticPrinciples.principle_gender
principle_gender(masculine, feminine) ==
    LET total == RAdd(masculine, feminine)
        m_percent == IF IsZero(total) THEN R(50)
                     ELSE RMul(RDiv(masculine, total), R(100))
        f_percent == IF IsZero(total) THEN R(50)
                     ELSE RMul(RDiv(feminine, total), R(100))
    IN  Return([principle |-> "gender", masculine_active |-> m_percent,
                feminine_receptive |-> f_percent,
                market_state |-> IF RLess(R(50), m_percent) THEN "active"
                                 ELSE "receptive"])

\* SacredGeometry.vesica_piscis_ratio: 0 when an argument is 0, and else
\* abs(ratio - sqrt(3)/2), kept as the ratio the irrational is taken from.
vesica_piscis_ratio(value1, value2) ==
    IF IsZero(value1) \/ IsZero(value2)
    THEN Return([zero |-> TRUE, ratio |-> R(0)])
    ELSE Return([zero |-> FALSE, ratio |-> RDiv(value1, value2)])

\* QuantumConsciousness.superposition
superposition(option_a, option_b) ==
    LET sum == RAdd(option_a, option_b)
    IN  Return([principle |-> "superposition", option_a |-> option_a,
                option_b |-> option_b,
                probability_a |-> IF RLess(R(0), sum) THEN RDiv(option_a, sum)
                                  ELSE <<1, 2>>,
                probability_b |-> IF RLess(R(0), sum) THEN RDiv(option_b, sum)
                                  ELSE <<1, 2>>])

\* QuantumConsciousness.entanglement: the divisor max(asset1, asset2) is not
\* guarded.
entanglement(asset1_price, asset2_price) ==
    LET divisor == RMax(asset1_price, asset2_price)
    IN  IF IsZero(divisor)
        THEN ZeroDivisionError
        ELSE Return([principle |-> "entanglement", asset1 |-> asset1_price,
                     asset2 |-> asset2_price,
                     correlation |->
                        RSub(R(1), RDiv(RAbs(RSub(asset1_price, asset2_price)),
                                        divisor))])

\* SacredGeometry.FIBONACCI
FIBONACCI == <<1, 1, 2, 3, 5, 8, 13, 21, 34, 55, 89, 144, 233, 377, 610, 987>>

\* SacredGeometry.golden_ratio_levels, stopping one table entry early.
golden_ratio_levels_short(price) ==
    [i \in 1..(Len(FIBONACCI) - 1) |-> [factor |-> price, tenths |-> FIBONACCI[i]]]

\* SacredGeometry.golden_ratio_levels: the level price * PHI ** (fib / 10) is
\* kept as its factor and its exponent in tenths, PHI being irrational.
golden_ratio_levels(price) ==
    [i \in 1..Len(FIBONACCI) |-> [factor |-> price, tenths |-> FIBONACCI[i]]]

\* max(fib_levels) of levels with one common factor: PHI > 1, so the largest
\* exponent wins under a positive factor and the smallest under a negative
\* one; Python's max keeps the first of equal elements.
MaxLevel(levels) ==
    LET better(i, j) ==
            IF levels[i].factor[1] > 0 THEN levels[i].tenths > levels[j].tenths
            ELSE IF levels[i].factor[1] < 0 THEN levels[i].tenths < levels[j].tenths
            ELSE FALSE
        best == CHOOSE i \in 1..Len(levels) :
                    \A j \in 1..Len(levels) :
                        ~better(j, i) /\ (j < i => better(i, j))
    IN  levels[best]

\* MagickProfitEngine.analyze_opportunity: price / max(fib_levels) is not
\* guarded, and price 0 makes every level 0.
analyze_opportunity(price, volume) ==
    LET fib_levels == golden_ratio_levels(price)
        vibration == principle_vibration(volume)
        quantum == superposition(RMul(price, <<21, 20>>), RMul(price, <<19, 20>>))
        top == MaxLevel(fib_levels)
    IN  IF IsZero(top.factor)
        THEN ZeroDivisionError
        ELSE Return([price |-> price, volume |-> volume,
                     fibonacci_levels |-> SubSeq(fib_levels, 1, 5),
                     hermetic_analysis |-> vibration.value,
                     quantum_analysis |-> quantum.value,
                     opportunity_score |->
                        [factor |-> RMul(RDiv(price, top.factor), R(100)),
                         tenths |-> -top.tenths]])

\* MagickProfitEngine.calculate_magick_profit, reporting the running sum of
\* the recorded profits as the profit of the call.
calculate_magick_profit_running(entry, exit, amount, recorded) ==
    LET profit == RMul(RSub(exit, entry), amount)
        magick_multiplier == <<11, 10>>
        magick_profit == RMul(profit, magick_multiplier)
        after == Append(recorded, magick_profit)
    IN  IF IsZero(entry)
        THEN [end |-> ZeroDivisionError, profits |-> recorded]
        ELSE [end |-> Return([entry_price |-> entry, exit_price |-> exit,
                              amount |-> amount, profit |-> profit,
                              roi_percent |-> RMul(RDiv(RSub(exit, entry), entry), R(100)),
                              magick_multiplier |-> magick_multiplier,
                              magick_profit |-> RSum(after),
                              total_profits |-> RSum(after)]),
              profits |-> after]

\* MagickProfitEngine.calculate_magick_profit: the divisor entry of roi is not
\* guarded; the profit is recorded only after roi was computed.
calculate_magick_profit(entry, exit, amount, recorded) ==
    LET profit == RMul(RSub(exit, entry), amount)
        magick_multiplier == <<11, 10>>
        magick_profit == RMul(profit, magick_multiplier)
        after == Append(recorded, magick_profit)
    IN  IF IsZero(entry)
        THEN [end |-> ZeroDivisionError, profits |-> recorded]
        ELSE [end |-> Return([entry_price |-> entry, exit_price |-> exit,
                              amount |-> amount, profit |-> profit,
                              roi_percent |-> RMul(RDiv(RSub(exit, entry), entry), R(100)),
                              magick_multiplier |-> magick_multiplier,
                              magick_profit |-> magick_profit,
                              total_profits |-> RSum(after)]),
              profits |-> after]

\* range(0, stop, step) of Python, for a positive step.
PyRange(stop, step) ==
    [j \in 1..(IF stop > 0 THEN (stop + step - 1) \div step ELSE 0) |-> step * (j - 1)]

RECURSIVE SumInts(_)
SumInts(s) == IF s = <<>> THEN 0 ELSE s[1] + SumInts(Tail(s))

\* np.mean(segment)
Mean(segment) == Norm(SumInts(segment), Len(segment))

\* np.std(segment) ** 2: the population variance; the standard deviation is
\* its square root, and is positive exactly when the variance is.
Variance(segment) ==
    LET mean == Mean(segment)
        sq(i) == RMul(RSub(R(segment[i]), mean), RSub(R(segment[i]), mean))
    IN  RDiv(RSum([i \in 1..Len(segment) |-> sq(i)]), R(Len(segment)))

\* The loop of SacredGeometry.flower_of_life_pattern (lines 52-59): one entry
\* per segment the loop goes through, with the outcome of the guard std > 0
\* and whether the segment adds to pattern_score.  harmony = 1 - std / mean
\* is above 0 when mean < 0, and when mean > 0 and std < mean; with mean = 0
\* numpy's division gives an infinity and max(0, harmony) is 0.
FlowerLoop(data) ==
    LET starts == PyRange(Len(data) - 19, 19)
        entry(i) ==
            LET segment == SubSeq(data, i + 1, i + 19)
                mean == Mean(segment)
                variance == Variance(segment)
                std_positive == RLess(R(0), variance)
            IN  [start |-> i, mean |-> mean, variance |-> variance,
                 std_positive |-> std_positive,
                 counted |-> /\ std_positive
                             /\ \/ RLess(mean, R(0))
                                \/ RLess(R(0), mean) /\ RLess(variance, RMul(mean, mean))]
    IN  [j \in 1..Len(starts) |-> entry(starts[j])]

\* SacredGeometry.flower_of_life_pattern, with the minimum length off by one.
flower_of_life_pattern_min7(data) ==
    IF Len(data) <= 6
    THEN Return([pattern |-> "insufficient_data"])
    ELSE Return([pattern |-> "flower_of_life",
                 harmony_score |->
                    [terms |-> SelectSeq(FlowerLoop(data), LAMBDA e : e.counted),
                     divisor |-> RMax(R(1), Norm(Len(data) - 19, 19))]])

\* SacredGeometry.flower_of_life_pattern: pattern_score is the sum of
\* 1 - std / mean over the counted segments, kept as these segments, the
\* standard deviation being irrational; harmony_score is that sum divided by
\* max(1, (len(data) - 19) / 19).
flower_of_life_pattern(data) ==
    IF Len(data) < 6
    THEN Return([pattern |-> "insufficient_data"])
    ELSE Return([pattern |-> "flower_of_life",
                 harmony_score |->
                    [terms |-> SelectSeq(FlowerLoop(data), LAMBDA e : e.counted),
                     divisor |-> RMax(R(1), Norm(Len(data) - 19, 19))]])

\* HermeticPrinciples.principle_rhythm
principle_rhythm(prices) ==
    IF Len(prices) < 2
    THEN Return([principle |-> "rhythm", insufficient_data |-> TRUE])
    ELSE LET changes == [i \in 1..(Len(prices) - 1) |-> prices[i + 1] - prices[i]]
             ups == Cardinality({i \in 1..Len(changes) : changes[i] > 0})
             downs == Cardinality({i \in 1..Len(changes) : changes[i] < 0})
         IN  Return([principle |-> "rhythm", up_movements |-> ups,
                     down_movements |-> downs,
                     cycle_ratio |-> Norm(ups, IF downs > 1 THEN downs ELSE 1)])

\* MagickProfitEngine.execute_trade_with_magick: the trade is built and
\* appended to self.trades; nothing is sent anywhere.  The intention and
\* gratitude texts of the trade are left out.
execute_trade_with_magick(asset, amount, price, recorded) ==
    LET trade == [asset |-> asset, amount |-> amount, entry_price |-> price,
                  status |-> "EXECUTED"]
    IN  [end |-> Return(trade), trades |-> Append(recorded, trade)]

\* MagickProfitEngine.get_magick_status, counting the recorded profits as
\* the trades executed.
get_magick_status_profits(recorded_trades, recorded_profits) ==
    Return([trades_executed |-> Len(recorded_profits),
            total_profit |-> RSum(recorded_profits),
            average_profit_per_trade |->
                RDiv(RSum(recorded_profits),
                     R(IF Len(recorded_profits) > 1 THEN Len(recorded_profits) ELSE 1)),
            magick_active |-> TRUE])

\* MagickProfitEngine.get_magick_status
get_magick_status(recorded_trades, recorded_profits) ==
    Return([trades_executed |-> Len(recorded_trades),
            total_profit |-> RSum(recorded_profits),
            average_profit_per_trade |->
                RDiv(RSum(recorded_profits),
                     R(IF Len(recorded_profits) > 1 THEN Len(recorded_profits) ELSE 1)),
            magick_active |-> TRUE])

(***************************************************************************)
(* The formula library as a state machine: a call is drawn with its        *)
(* arguments, and one step runs it.                                        *)
(***************************************************************************)
Nums == {R(n) : n \in (-MaxNum..MaxNum) \cup {30, 70}}
SmallNums == {R(n) : n \in -MaxNum..MaxNum}

TwoArgFormulas ==
    {"principle_correspondence", "principle_polarity", "principle_gender",
     "vesica_piscis_ratio", "superposition", "entanglement"}

FormulaCalls ==
    {[fn |-> f, args |-> <<a, b>>] : f \in TwoArgFormulas, a \in Nums, b \in Nums}
    \cup {[fn |-> "principle_vibration", args |-> <<a>>] : a \in Nums}
    \cup {[fn |-> "golden_ratio_levels", args |-> <<a>>] : a \in Nums}

EngineCalls ==
    {[fn |-> "analyze_opportunity", args |-> <<a, b>>] : a \in SmallNums, b \in SmallNums}
    \cup {[fn |-> "calculate_magick_profit", args |-> <<a, b, c>>] :
            a \in SmallNums, b \in SmallNums, c \in SmallNums}
    \cup {[fn |-> "execute_trade_with_magick", args |-> <<a, b>>] :
            a \in SmallNums, b \in SmallNums}
    \cup {[fn |-> "get_magick_status", args |-> <<>>]}

\* Inputs of flower_of_life_pattern: up to MaxData values, all equal or with
\* one value of each group of 19 set apart (-18 among eighteen 1s makes the
\* mean of the group 0).
FlowerInputs ==
    {[i \in 1..n |-> IF (i - 1) % 19 = 0 THEN a ELSE b] :
        n \in 0..MaxData, a \in (-MaxNum..MaxNum) \cup {-18}, b \in -MaxNum..MaxNum}

\* Inputs of principle_rhythm: every price list of up to MaxPrices values.
RhythmInputs == UNION {[1..n -> -MaxNum..MaxNum] : n \in 0..MaxPrices}

SequenceCalls ==
    {[fn |-> "flower_of_life_pattern", args |-> <<d>>] : d \in FlowerInputs}
    \cup {[fn |-> "principle_rhythm", args |-> <<p>>] : p \in RhythmInputs}

\* The calls a caller makes after another call: one that records a profit,
\* one that does not, and (see NextCall) a call made before, again.
ChainCalls ==
    {[fn |-> "calculate_magick_profit", args |-> <<R(1), R(2), R(1)>>],
     [fn |-> "analyze_opportunity", args |-> <<R(1), R(1)>>],
     [fn |-> "execute_trade_with_magick", args |-> <<R(1), R(2)>>],
     [fn |-> "get_magick_status", args |-> <<>>]}

Evaluate(f, x) ==
    CASE f = "principle_correspondence" -> principle_correspondence(x[1], x[2])
      [] f = "principle_vibration" -> principle_vibration(x[1])
      [] f = "principle_polarity" -> principle_polarity(x[1], x[2])
      [] f = "principle_gender" -> principle_gender(x[1], x[2])
      [] f = "vesica_piscis_ratio" -> vesica_piscis_ratio(x[1], x[2])
      [] f = "superposition" -> superposition(x[1], x[2])
      [] f = "entanglement" -> entanglement(x[1], x[2])
      [] f = "golden_ratio_levels" -> Return(golden_ratio_levels(x[1]))
      [] f = "principle_rhythm" -> principle_rhythm(x[1])

InitFormula ==
    /\ profit_tracking = [total_profit |-> 0, sessions |-> 0, last_profit |-> 0]
    /\ transactions = <<>>
    /\ op = "none"
    /\ pending = "none"
    /\ locals = NoLocals
    /\ result = NoResult
    /\ requests = <<>>
    /\ responses = <<>>
    /\ ncalls = 0
    /\ monitor_log = <<>>
    /\ formula \in FormulaCalls \cup EngineCalls \cup SequenceCalls
    /\ out = NotCalled
    /\ profits = <<>>
    /\ trades = <<>>
    /\ engine_log = NoEngineCalls
    /\ analysed = <<>>
    /\ earlier = NoEarlier
    /\ nformula = 0
    /\ open_sessions = {}
    /\ before = Retained
    /\ tasks = NoTasks

\* The call at hand ends with o.  The history keeps one call and what it
\* produced: this one or, by choice, an earlier or a later one.
Made(o) ==
    /\ out' = o
    /\ nformula' = nformula + 1
    /\ \E mark \in BOOLEAN :
          earlier' = IF earlier = NoEarlier /\ mark
                     THEN [formula |-> formula, out |-> o]
                     ELSE earlier

\* A static formula of the library is called.
CallFormula ==
    /\ out = NotCalled
    /\ formula.fn \in TwoArgFormulas
                      \cup {"principle_vibration", "golden_ratio_levels", "principle_rhythm"}
    /\ Made(Evaluate(formula.fn, formula.args))
    /\ UNCHANGED <<formula, profits, trades, engine_log, analysed, wallet_vars, tasks>>

Call_flower_of_life_pattern ==
    /\ out = NotCalled
    /\ formula.fn = "flower_of_life_pattern"
    /\ Made(flower_of_life_pattern(formula.args[1]))
    /\ analysed' = IF Len(formula.args[1]) < 6 THEN <<>> ELSE FlowerLoop(formula.args[1])
    /\ UNCHANGED <<formula, profits, trades, engine_log, wallet_vars, tasks>>

Call_analyze_opportunity ==
    /\ out = NotCalled
    /\ formula.fn = "analyze_opportunity"
    /\ Made(analyze_opportunity(formula.args[1], formula.args[2]))
    /\ UNCHANGED <<formula, profits, trades, engine_log, analysed, wallet_vars, tasks>>

Call_calculate_magick_profit ==
    /\ out = NotCalled
    /\ formula.fn = "calculate_magick_profit"
    /\ LET c == calculate_magick_profit(formula.args[1], formula.args[2],
                                        formula.args[3], profits)
       IN  /\ Made(c.end)
           /\ profits' = c.profits
           /\ engine_log' =
                 [engine_log EXCEPT
                    !.magick_profits = IF c.end.kind = "return"
                                       THEN Append(@, c.end.value.magick_profit)
                                       ELSE @,
                    !.trades = trades,
                    !.profits = profits]
    /\ UNCHANGED <<formula, trades, analysed, wallet_vars, tasks>>

Call_execute_trade_with_magick ==
    /\ out = NotCalled
    /\ formula.fn = "execute_trade_with_magick"
    /\ LET c == execute_trade_with_magick("SOL", formula.args[1], formula.args[2], trades)
       IN  /\ out' = c.end
           /\ trades' = c.trades
    /\ nformula' = nformula + 1
    /\ engine_log' = [engine_log EXCEPT !.executes = @ + 1, !.trades = trades,
                                        !.profits = profits]
    /\ UNCHANGED <<formula, profits, analysed, earlier, wallet_vars, tasks>>

Call_get_magick_status ==
    /\ out = NotCalled
    /\ formula.fn = "get_magick_status"
    /\ out' = get_magick_status(trades, profits)
    /\ nformula' = nformula + 1
    /\ engine_log' = [engine_log EXCEPT !.trades = trades, !.profits = profits]
    /\ UNCHANGED <<formula, profits, trades, analysed, earlier, wallet_vars, tasks>>

\* The caller goes on to another call of the library, on the same engine.
NextCall ==
    /\ out # NotCalled
    /\ nformula < MaxChain
    /\ formula' \in ChainCalls \cup (IF earlier = NoEarlier THEN {} ELSE {earlier.formula})
    /\ out' = NotCalled
    /\ UNCHANGED <<profits, trades, engine_log, analysed, earlier, nformula, wallet_vars,
                   tasks>>

NextFormula ==
    \/ CallFormula
    \/ Call_flower_of_life_pattern
    \/ Call_analyze_opportunity
    \/ Call_calculate_magick_profit
    \/ Call_execute_trade_with_magick
    \/ Call_get_magick_status
    \/ NextCall

SpecFormula == InitFormula /\ [][NextFormula]_vars

(***************************************************************************)
(* Properties of the wallet aggregator.                                    *)
(***************************************************************************)
Range(s) == {s[i] : i \in 1..Len(s)}

\* The last finished operation was o, and nothing is in progress.
Ended(o) == op = "none" /\ result.op = o

IsEnvelope(v) == v.type = "dict" /\ "status" \in DOMAIN v

Failure(rsp) == ~(rsp.kind = "http" /\ rsp.status = 200)

\* The sum the specification gives a transaction list: the amounts of the
\* entries among the first five that are records with a coercible amount.
Counted(b, i) == i <= 5 /\ b[i].isdict /\ b[i].has_amount /\ b[i].coercible

RECURSIVE SumUpTo(_, _)
SumUpTo(b, n) ==
    IF n = 0 THEN 0
    ELSE SumUpTo(b, n - 1) + (IF Counted(b, n) THEN b[n].amount ELSE 0)

\* The delta the specification gives a monitor_wallet call, from the answer of
\* the transaction provider: 0 when there is no successful answer, and
\* when the answer holds no transaction list.
ExpectedDelta(rsp) ==
    IF Failure(rsp) \/ ~IsList(rsp.body) THEN 0 ELSE SumUpTo(rsp.body, Len(rsp.body))

RECURSIVE ExpectedTotal(_)
ExpectedTotal(log) ==
    IF log = <<>> THEN 0 ELSE ExpectedDelta(log[1]) + ExpectedTotal(Tail(log))

\* C1: monitor_wallet never raises: whatever the providers answer, a call
\* that has ended returned a composite result with status 'success' holding
\* the wallet address, a balance envelope, a token envelope, a transaction
\* envelope and the profit-tracking state.
C1_MonitorNeverRaises ==
    Ended("monitor_wallet") =>
        /\ result.kind = "return"
        /\ result.value.type = "dict"
        /\ result.value.status = "success"
        /\ result.value.wallet = WALLET_ADDRESS
        /\ IsEnvelope(result.value.balance)
        /\ IsEnvelope(result.value.tokens)
        /\ IsEnvelope(result.value.transactions)
        /\ result.value.profit_tracking = profit_tracking

\* C2: when no call is in progress, the sessions counter equals the number of
\* monitor_wallet calls made so far, whatever the providers answered.
C2_SessionsCountCalls ==
    op = "none" => profit_tracking.sessions = Len(monitor_log)

\* C3: the profit delta of a monitor_wallet call whose transaction request
\* was answered is the sum of the amounts of the entries among the first five
\* transactions returned that are records with a coercible amount (entries
\* after the fifth, non-records, entries without amount and uncoercible
\* amounts add nothing and do not stop the loop), and it is 0 when the
\* transaction fetch did not return a success envelope.
C3_ProfitDelta ==
    (Ended("monitor_wallet") /\ monitor_log[Len(monitor_log)].kind # "none")
    =>  locals.profit =
            [type |-> "float", v |-> ExpectedDelta(monitor_log[Len(monitor_log)])]

\* C3, the part about a list that was fetched: whenever monitor_wallet has
\* computed its delta from a success envelope holding a list, the delta is
\* the sum over the first five entries described in C3.
C3_DeltaOfList ==
    (/\ locals.profit.type = "float"
     /\ locals.transactions.status = "success"
     /\ IsList(locals.transactions.transactions))
    =>  locals.profit.v =
            SumUpTo(locals.transactions.transactions,
                    Len(locals.transactions.transactions))

\* C3 witness: the delta of the transactions 3, "bad", -1, no amount, 2 is 4.
C3_Witness ==
    /\ locals.profit = [type |-> "float", v |-> 4]
    /\ locals.transactions.status = "success"
    /\ locals.transactions.transactions = ExampleTxs

\* C4: when no call is in progress, total_profit is the sum of the deltas of
\* all monitor_wallet calls made so far and last_profit is the delta of the
\* most recent call (0 before the first call).
C4_TotalIsSumOfDeltas ==
    op = "none" =>
        /\ profit_tracking.total_profit = ExpectedTotal(monitor_log)
        /\ profit_tracking.last_profit =
              IF monitor_log = <<>> THEN 0
              ELSE ExpectedDelta(monitor_log[Len(monitor_log)])

\* C5: get_wallet_balance always returns a well-formed envelope: a success
\* envelope carrying the payload, or the pending placeholder carrying the
\* wallet address and a message; it never raises and never returns None.
C5_BalanceAlwaysEnvelope ==
    Ended("get_wallet_balance") =>
        /\ result.kind = "return"
        /\ result.value.type = "dict"
        /\ \/ /\ result.value.status = "success"
              /\ DOMAIN result.value \cap {"balance", "data"} # {}
           \/ /\ result.value.status = "pending"
              /\ result.value.wallet = WALLET_ADDRESS
              /\ "message" \in DOMAIN result.value

\* C6: get_token_balances, get_transaction_history and get_wallet_nfts absorb
\* every failure of their provider call: they return an envelope, whose
\* status is not 'success' when the call failed, and never raise.
C6_FetchAbsorbsFailure ==
    \A o \in {"get_token_balances", "get_transaction_history", "get_wallet_nfts"} :
        Ended(o) =>
            /\ result.kind = "return"
            /\ IsEnvelope(result.value)
            /\ Failure(responses[1]) => result.value.status # "success"

\* C7: a monitor_wallet call (balance, tokens, transactions) and a
\* get_wallet_value call (tokens, NFTs, balance) that have ended issued all
\* three of their fetches, and each ran to completion, whatever the outcome
\* of the fetches before it.
C7_AllFetchesIssued ==
    /\ Ended("monitor_wallet") =>
          /\ {"helius_balances", "magiceden_tokens", "solscan_transactions"}
                \subseteq Range(requests)
          /\ Len(responses) = Len(requests)
    /\ Ended("get_wallet_value") =>
          /\ {"magiceden_tokens", "magiceden_nfts", "helius_balances"}
                \subseteq Range(requests)
          /\ Len(responses) = Len(requests)

\* C8: get_wallet_value returns a value summary whose sol_balance, token_value
\* and total_usd_value are 0 and whose nft_count is the count reported by the
\* NFT fetch, 0 when the NFT fetch failed.
C8_ValueSummary ==
    Ended("get_wallet_value") =>
        /\ result.kind = "return"
        /\ "value" \in DOMAIN result.value
        /\ result.value.value.sol_balance = 0
        /\ result.value.value.token_value = 0
        /\ result.value.value.total_usd_value = 0
        /\ result.value.value.nft_count =
              IF locals.nfts.type = "dict" THEN locals.nfts.count ELSE 0

(***************************************************************************)
(* Properties of the formula library.                                      *)
(***************************************************************************)
Called(f) == formula.fn = f /\ out # NotCalled

\* C9: every formula that divides returns a result for all numeric inputs,
\* zeros included: no call of principle_correspondence, principle_vibration,
\* principle_polarity, principle_gender, vesica_piscis_ratio, superposition,
\* entanglement, calculate_magick_profit or analyze_opportunity ends with a
\* division-by-zero error.
C9_NoDivisionByZero ==
    out # NotCalled => out.kind = "return"

\* C10: principle_polarity(bull, bear) gives bull_force = bear_force = 50 when
\* bull + bear = 0, and else bull_force = 100*bull/(bull+bear) and
\* bear_force = 100*bear/(bull+bear); market_state is 'bullish' exactly when
\* bull_force > 50 and 'bearish' otherwise; (70, 30) gives 70, 30, 'bullish'.
C10_Polarity ==
    Called("principle_polarity") =>
        LET bull == formula.args[1]
            bear == formula.args[2]
            total == RAdd(bull, bear)
            v == out.value
        IN  /\ out.kind = "return"
            /\ IF total = R(0)
               THEN v.bull_force = R(50) /\ v.bear_force = R(50)
               ELSE /\ RMul(v.bull_force, total) = RMul(R(100), bull)
                    /\ RMul(v.bear_force, total) = RMul(R(100), bear)
            /\ v.market_state \in {"bullish", "bearish"}
            /\ v.market_state = "bullish" <=> RLess(R(50), v.bull_force)
            /\ (bull = R(70) /\ bear = R(30)) =>
                  /\ v.bull_force = R(70)
                  /\ v.bear_force = R(30)
                  /\ v.market_state = "bullish"

\* C10 witness: principle_polarity(70, 30) returned bull 70, bear 30, bullish.
C10_Witness ==
    /\ Called("principle_polarity")
    /\ formula.args = <<R(70), R(30)>>
    /\ out.kind = "return"
    /\ out.value.bull_force = R(70)
    /\ out.value.bear_force = R(30)
    /\ out.value.market_state = "bullish"

(***************************************************************************)
(* Properties of the sequence formulas and of the golden-ratio levels.     *)
(***************************************************************************)
AllEqual(s) == \A i \in 1..Len(s) : s[i] = s[1]

\* A level price * PHI ** (fib / 10) is above 0 exactly when its factor is,
\* a power of PHI being above 0.
LevelPositive(l) == RLess(R(0), l.factor)

\* C11: below their minimum length the sequence formulas return the
\* insufficient-data marker instead of computing (flower_of_life_pattern
\* below 6 values, principle_rhythm below 2), and from the minimum on they
\* compute and return a full result.
C11_InsufficientData ==
    /\ Called("flower_of_life_pattern") =>
          /\ out.kind = "return"
          /\ IF Len(formula.args[1]) < 6
             THEN out.value = [pattern |-> "insufficient_data"] /\ analysed = <<>>
             ELSE /\ DOMAIN out.value = {"pattern", "harmony_score"}
                  /\ out.value.pattern = "flower_of_life"
    /\ Called("principle_rhythm") =>
          /\ out.kind = "return"
          /\ IF Len(formula.args[1]) < 2
             THEN out.value = [principle |-> "rhythm", insufficient_data |-> TRUE]
             ELSE /\ DOMAIN out.value = {"principle", "up_movements", "down_movements",
                                         "cycle_ratio"}
                  /\ out.value.up_movements + out.value.down_movements
                        <= Len(formula.args[1]) - 1

C11_Witness ==
    /\ Called("flower_of_life_pattern")
    /\ Len(formula.args[1]) = 6
    /\ out.kind = "return"
    /\ out.value.pattern = "flower_of_life"

\* C12: flower_of_life_pattern applied to exactly 19 equal values goes
\* through that one segment of 19, reaches the guard std > 0 with std = 0,
\* so that the segment adds nothing and nothing is divided by zero, and
\* returns a flower_of_life result.
C12_NineteenEqualValues ==
    (/\ Called("flower_of_life_pattern")
     /\ Len(formula.args[1]) = 19
     /\ AllEqual(formula.args[1])) =>
        /\ Len(analysed) = 1
        /\ ~analysed[1].std_positive
        /\ ~analysed[1].counted
        /\ out.kind = "return"
        /\ out.value.pattern = "flower_of_life"

\* C13: for every price above 0, golden_ratio_levels returns one level per
\* entry of the Fibonacci table, 16 levels in the order of the table, and
\* every level is above 0.
C13_GoldenRatioLevels ==
    (Called("golden_ratio_levels") /\ RLess(R(0), formula.args[1])) =>
        /\ out.kind = "return"
        /\ Len(FIBONACCI) = 16
        /\ Len(out.value) = Len(FIBONACCI)
        /\ \A i \in 1..Len(out.value) :
              /\ out.value[i].tenths = FIBONACCI[i]
              /\ out.value[i].factor = formula.args[1]
              /\ LevelPositive(out.value[i])

C13_Witness ==
    /\ Called("golden_ratio_levels")
    /\ formula.args[1] = R(2)
    /\ out.kind = "return"
    /\ Len(out.value) = 16

(***************************************************************************)
(* Properties of repeated calls of the formula library.                    *)
(***************************************************************************)
\* The call that just ended was made before with the same arguments.
Repeated == out # NotCalled /\ earlier # NoEarlier /\ formula = earlier.formula /\ nformula >= 2

\* C14 as stated: no formula holds state between calls: a call of the formula
\* library (calculate_magick_profit included) made twice with the same
\* arguments produces the same output, whatever was called before or in
\* between.
C14_NoStateBetweenCalls == Repeated => out = earlier.out

\* C14, amended: the formulas and analyze_opportunity produce the same output
\* for the same arguments; calculate_magick_profit ends the same way and
\* produces the same fields except total_profits, which is the sum of all
\* the profits recorded so far.
C14_StatelessFormulas ==
    Repeated =>
        IF formula.fn = "calculate_magick_profit"
        THEN /\ out.kind = earlier.out.kind
             /\ out.exc = earlier.out.exc
             /\ out.kind = "return" =>
                   /\ DOMAIN out.value = DOMAIN earlier.out.value
                   /\ \A k \in DOMAIN out.value \ {"total_profits"} :
                         out.value[k] = earlier.out.value[k]
                   /\ out.value.total_profits = RSum(profits)
        ELSE out = earlier.out

C14_Witness ==
    /\ Repeated
    /\ formula.fn = "calculate_magick_profit"
    /\ out.kind = "return"
    /\ out.value.magick_profit = earlier.out.value.magick_profit
    /\ out.value.total_profits # earlier.out.value.total_profits

(***************************************************************************)
(* Properties of the requests and sessions of the wallet aggregator.       *)
(***************************************************************************)
Count(s, x) == Cardinality({i \in 1..Len(s) : s[i] = x})

\* The primary balance request failed in a way that calls for the fallback.
PrimaryFailed(rsp) == rsp.kind = "exception" \/ (rsp.kind = "http" /\ rsp.status = 429)

\* C15: every fetch is one-shot and the fallback comes after the primary: no
\* provider is asked twice by one operation; the fallback request is sent
\* only right after the primary request ended with a rate limit or an
\* exception, never after its success; a get_wallet_balance call sends one
\* primary and at most one fallback request, and get_token_balances,
\* get_transaction_history and get_wallet_nfts send exactly one request.
C15_OneShotFetches ==
    /\ \A x \in Range(requests) : Count(requests, x) = 1
    /\ \A i \in 1..Len(requests) :
          requests[i] = "solscan_account" =>
              /\ i > 1
              /\ requests[i - 1] = "helius_balances"
              /\ PrimaryFailed(responses[i - 1])
    /\ Ended("get_wallet_balance") =>
          /\ requests \in {<<"helius_balances">>, <<"helius_balances", "solscan_account">>}
          /\ Len(responses) = Len(requests)
          /\ Ok(responses[1]) => requests = <<"helius_balances">>
    /\ Ended("get_token_balances") => requests = <<"magiceden_tokens">>
    /\ Ended("get_transaction_history") => requests = <<"solscan_transactions">>
    /\ Ended("get_wallet_nfts") => requests = <<"magiceden_nfts">>

C15_Witness ==
    /\ Ended("get_wallet_balance")
    /\ requests = <<"helius_balances", "solscan_account">>
    /\ responses[1].kind = "http"
    /\ responses[1].status = 429

\* C17: every request runs in a session of its own that is closed however
\* the request ends: no session is open once an operation has returned or
\* raised, and while a fetch waits for its provider no session of an earlier
\* fetch is open (the fallback of the balance fetch may wait inside the
\* session of its primary request, both being of the same fetch).
C17_SessionsScoped ==
    /\ op = "none" => open_sessions = {}
    /\ pending # "none" => pending \in open_sessions
    /\ open_sessions \subseteq
          IF pending = "solscan_account"
          THEN {"helius_balances", "solscan_account"}
          ELSE IF op # "none" /\ pending = "none"
          THEN {requests[Len(requests)]}
          ELSE {pending}

C17_Witness ==
    /\ op = "monitor_wallet"
    /\ requests = <<"helius_balances", "solscan_account", "magiceden_tokens">>
    /\ responses[1].status = 429
    /\ open_sessions = {"magiceden_tokens"}

(***************************************************************************)
(* Properties of the retained state of the wallet aggregator.              *)
(***************************************************************************)
\* The last finished operation asked the transaction provider, last of all.
TransactionsFetched ==
    /\ op = "none"
    /\ result.op \in {"get_transaction_history", "monitor_wallet"}
    /\ requests[Len(requests)] = "solscan_transactions"
    /\ Len(responses) = Len(requests)

\* What that operation fetched, its request having ended with a 200.
FetchedList == responses[Len(responses)].body

\* C18 as stated: the retained transaction list is overwritten on each
\* get_transaction_history call: after every call it is the list fetched by
\* that call (nothing, when the call fetched nothing) and holds nothing from
\* earlier calls.
C18_OverwrittenOnEachCall ==
    TransactionsFetched =>
        IF Ok(responses[Len(responses)])
        THEN transactions = FetchedList
        ELSE transactions = <<>>

\* C18, amended: a get_transaction_history call whose request ends with
\* status 200 overwrites the retained list with the JSON value fetched, which
\* the call returns in its envelope when it returns; a call whose request
\* fails leaves the retained list as it was.
C18_OverwrittenWhenFetched ==
    TransactionsFetched =>
        IF Ok(responses[Len(responses)])
        THEN /\ transactions = FetchedList
             /\ Ended("get_transaction_history") /\ result.kind = "return" =>
                   result.value.transactions = transactions
        ELSE transactions = before.transactions

C18_Witness ==
    /\ Ended("get_transaction_history")
    /\ Ok(responses[1])
    /\ before.transactions = ExampleTxs
    /\ transactions = <<Tx(-1)>>

\* C19: monitor_wallet updates the profit-tracking state all or nothing: a
\* call that ends by raising leaves total_profit, last_profit and sessions as
\* they were before the call, and a call that changed them returns its
\* composite result.
C19_AllOrNothing ==
    Ended("monitor_wallet") =>
        /\ result.kind = "raise" => profit_tracking = before.profit_tracking
        /\ profit_tracking # before.profit_tracking =>
              /\ result.kind = "return"
              /\ result.value.type = "dict"
              /\ result.value.status = "success"

\* C20: track_profit and get_wallet_status are read-only: they leave
\* total_profit, last_profit, sessions and the retained transaction list as
\* they were; track_profit reports as average_profit_per_session the total
\* divided by sessions when sessions >= 1 and the total, which is 0, when no
\* monitor_wallet call has completed, and never divides by zero.
C20_ReadOnlyReports ==
    /\ Ended("track_profit") =>
          /\ profit_tracking = before.profit_tracking
          /\ transactions = before.transactions
          /\ result.kind = "return"
          /\ result.value.total_profit = profit_tracking.total_profit
          /\ result.value.sessions = profit_tracking.sessions
          /\ result.value.average_profit_per_session =
                IF profit_tracking.sessions >= 1
                THEN Norm(profit_tracking.total_profit, profit_tracking.sessions)
                ELSE R(0)
          /\ profit_tracking.sessions = 0 => profit_tracking.total_profit = 0
    /\ Ended("get_wallet_status") =>
          /\ profit_tracking = before.profit_tracking
          /\ transactions = before.transactions
          /\ result.kind = "return" =>
                /\ result.value.wallet_address = WALLET_ADDRESS
                /\ result.value.profit_tracking = profit_tracking
                /\ result.value.transaction_count = PyLen(transactions)
          /\ result.kind = "raise" => ~HasLen(transactions)

C20_Witness ==
    /\ Ended("track_profit")
    /\ profit_tracking.sessions = 2
    /\ result.kind = "return"
    /\ result.value.average_profit_per_session = <<19, 2>>

(***************************************************************************)
(* Properties of concurrent monitor_wallet invocations.                    *)
(***************************************************************************)
AllCompleted == \A t \in Invocations : tasks[t].pc = "done"

RECURSIVE SumOfDeltas(_)
SumOfDeltas(n) ==
    IF n = 0 THEN 0 ELSE SumOfDeltas(n - 1) + ExpectedDelta(tasks[n].response)

\* C16: with the invocations interleaving at their awaits only, no update is
\* lost: once the NumTasks invocations have all completed, sessions has
\* grown by NumTasks and total_profit by the sum of their deltas, each delta
\* being the one of the transactions that same invocation fetched.
C16_NoLostUpdate ==
    AllCompleted =>
        /\ profit_tracking.sessions = NumTasks
        /\ profit_tracking.total_profit = SumOfDeltas(NumTasks)

(***************************************************************************)
(* Properties of the bookkeeping of the profit engine.                     *)
(***************************************************************************)
\* C21: after any sequence of execute_trade_with_magick and
\* calculate_magick_profit calls, get_magick_status reports as
\* trades_executed the number of execute_trade_with_magick calls and as
\* total_profit the sum of the magick_profit values the
\* calculate_magick_profit calls returned; execute_trade_with_magick records
\* one trade with status EXECUTED, the one it returns, and leaves the
\* profits as they were, and calculate_magick_profit leaves the trades as
\* they were.
C21_EngineBookkeeping ==
    /\ Len(trades) = engine_log.executes
    /\ profits = engine_log.magick_profits
    /\ Called("get_magick_status") =>
          /\ out.kind = "return"
          /\ out.value.trades_executed = engine_log.executes
          /\ out.value.total_profit = RSum(engine_log.magick_profits)
          /\ trades = engine_log.trades
          /\ profits = engine_log.profits
    /\ Called("execute_trade_with_magick") =>
          /\ out.kind = "return"
          /\ out.value.status = "EXECUTED"
          /\ out.value.amount = formula.args[1]
          /\ out.value.entry_price = formula.args[2]
          /\ trades = Append(engine_log.trades, out.value)
          /\ profits = engine_log.profits
    /\ Called("calculate_magick_profit") =>
          /\ trades = engine_log.trades
          /\ profits = IF out.kind = "return"
                       THEN Append(engine_log.profits, out.value.magick_profit)
                       ELSE engine_log.profits

C21_Witness ==
    /\ Called("get_magick_status")
    /\ nformula = 3
    /\ out.value.trades_executed = 1
    /\ Len(profits) = 1
    /\ out.value.total_profit = <<11, 10>>
====
